---- MODULE Spec2Model ----
(***************************************************************************)
(* Model of the MachineLearningNotebooks sample notebooks.                 *)
(*                                                                         *)
(* Each notebook is a straight-line program of cells that is executed top  *)
(* to bottom ("Run all") against a remote workspace.  The notebook side    *)
(* (kernel variables, position in the notebook) and the platform side      *)
(* (compute targets, runs, registry, services) are separate parts of the   *)
(* state; the platform moves on its own between notebook steps.            *)
(***************************************************************************)
EXTENDS Integers, Sequences, FiniteSets, TLC

\* ------------------------------------------------------------------------
\* Bounds of the model
\* ------------------------------------------------------------------------
\* number of times a notebook is executed against the same workspace
MaxExecs == 2
\* cap of the clock, in units of 600 seconds
MaxClock == 4
\* rows and columns of the training frame (bank marketing)
MaxRows == 4
MaxCols == 2
\* samples of the MNIST test set, and the largest pixel value and label
MaxItems == 3
MaxPixel == 1
MaxLabel == 1
\* times the monitor cell is executed again within one execution
MaxReruns == 1

\* ------------------------------------------------------------------------
\* Notebooks and their cells
\* ------------------------------------------------------------------------
Notebooks == {"iris", "textdnn", "bank", "beer", "drift", "local", "chainer"}

\* one statement (or group of statements) of a code cell
Cell(op, x, y, z, f, line) ==
    [op |-> op, x |-> x, y |-> y, z |-> z, f |-> f, line |-> line]

\* variant: the environment of the submitted pipeline is edited afterwards
iris_view_results_M == <<
    Cell("mutate_cfg", "predict_env", "", "", {}, 437),
    Cell("rmtree", "iris_results", "", "", {"ignore_errors"}, 437),
    Cell("retrieve", "pipeline_run", "", "", {}, 439)
  >>

\* src/contrib/batch_inferencing/tabular-dataset-inference-iris.ipynb
\* its last code cell ("View Results")
iris_view_results == <<
    Cell("rmtree", "iris_results", "", "", {"ignore_errors"}, 437),
    Cell("retrieve", "pipeline_run", "", "", {}, 439)
  >>

tabular_dataset_inference_iris == <<
    Cell("load_ws", "", "", "", {}, 52),
    Cell("compute", "cpu-cluster", "AmlCompute", "", {}, 88),
    Cell("wait_compute", "cpu-cluster", "", "", {"if_created", "timeout"}, 103),
    Cell("register_datastore", "iris_datastore_data", "", "", {"overwrite"}, 131),
    Cell("register_ds", "iris_data", "", "", {"create_new_version"}, 158),
    Cell("register_datastore", "iris_model_datastore", "", "", {"overwrite"}, 207),
    Cell("register_model", "iris", "", "", {}, 225),
    Cell("build_cfg", "predict_env", "", "", {}, 299),
    Cell("mutate_cfg", "predict_env", "", "", {}, 300),
    Cell("build_cfg", "parallel_run_config", "", "", {"predict_env"}, 321),
    Cell("build_cfg", "pipeline", "", "", {"parallel_run_config"}, 375),
    Cell("submit", "pipeline", "pipeline_run", "cpu-cluster", {}, 377),
    Cell("observe", "pipeline_run", "", "", {}, 407),
    Cell("wait_run", "pipeline_run", "", "", {}, 417)
  >> \o iris_view_results

\* src/how-to-use-azureml/automated-machine-learning/classification-text-dnn/
\*     auto-ml-classification-text-dnn.ipynb
auto_ml_classification_text_dnn == <<
    Cell("load_ws", "", "", "", {}, 100),
    Cell("compute", "cpu-dnntext", "AmlCompute", "", {"type_test"}, 141),
    Cell("wait_compute", "cpu-dnntext", "", "", {"timeout"}, 160),
    Cell("upload", "text-dnn-data", "", "", {"overwrite"}, 242),
    Cell("build_cfg", "automl_config", "", "", {}, 289),
    Cell("submit", "automl_config", "automl_run", "cpu-dnntext", {}, 311),
    Cell("observe", "automl_run", "", "", {}, 320),
    Cell("wait_run", "automl_run", "", "", {}, 329),
    Cell("retrieve", "automl_run", "", "", {}, 384),
    Cell("register_model", "textDNN-20News", "", "", {}, 417),
    Cell("helper_submit", "run_inference", "test_run", "cpu-dnntext", {}, 477),
    Cell("observe", "test_run", "", "", {}, 503),
    Cell("wait_run", "test_run", "", "", {}, 512),
    Cell("retrieve", "test_run", "", "", {}, 521)
  >>

\* src/how-to-use-azureml/automated-machine-learning/
\*     classification-bank-marketing-all-features/
\*     auto-ml-classification-bank-marketing-all-features.ipynb
auto_ml_classification_bank_marketing_all_features == <<
    Cell("load_ws", "", "", "", {}, 101),
    Cell("compute", "cpu-cluster-4", "AmlCompute", "", {"type_test"}, 146),
    Cell("wait_compute", "cpu-cluster-4", "", "", {"timeout"}, 163),
    Cell("local", "missing_samples", "", "", {}, 207),
    Cell("upload", "bankmarketing", "", "", {"overwrite"}, 232),
    Cell("build_cfg", "automl_config", "", "", {}, 319),
    Cell("submit", "automl_config", "remote_run", "cpu-cluster-4", {}, 347),
    Cell("observe", "remote_run", "", "", {}, 356),
    Cell("wait_run", "remote_run", "", "", {}, 386),
    Cell("retrieve", "remote_run", "", "", {}, 395),
    Cell("observe", "remote_run", "", "", {}, 459),
    Cell("wait_explain", "remote_run", "model_explainability_run", "", {}, 478),
    Cell("retrieve", "remote_run", "", "", {}, 485),
    Cell("download_explanation", "remote_run", "", "", {}, 502),
    Cell("download_explanation", "remote_run", "", "", {"raw"}, 522),
    Cell("retrieve", "remote_run", "", "", {"onnx"}, 545),
    Cell("onnx", "remote_run", "", "", {}, 594),
    Cell("retrieve", "remote_run", "", "", {}, 666),
    Cell("register_model", "bank_model", "", "", {}, 714),
    Cell("deploy", "automl-sample-bankmarketing-all", "aci", "", {}, 748),
    Cell("wait_deploy", "automl-sample-bankmarketing-all", "", "", {}, 749),
    Cell("predict", "fitted_model", "", "", {}, 835)
  >>

\* variant: the test cell loads the workspace a second time
beer_test_setup_M == <<
    Cell("load_ws", "", "", "", {}, 541),
    Cell("lookup_compute", "cpu-cluster", "", "", {}, 541)
  >>

\* src/how-to-use-azureml/automated-machine-learning/forecasting-beer-remote/
\*     auto-ml-forecasting-beer-remote.ipynb
\* the cell that prepares the test experiment
beer_test_setup == <<
    Cell("lookup_compute", "cpu-cluster", "", "", {}, 541)
  >>

auto_ml_forecasting_beer_remote == <<
    Cell("load_ws", "", "", "", {}, 123),
    Cell("compute", "cpu-cluster", "AmlCompute", "", {"try"}, 169),
    Cell("wait_compute", "cpu-cluster", "", "", {}, 177),
    Cell("upload", "beer-dataset", "", "", {"overwrite"}, 285),
    Cell("build_cfg", "automl_config", "", "", {}, 359),
    Cell("submit", "automl_config", "remote_run", "cpu-cluster", {}, 391),
    Cell("wait_run", "remote_run", "", "", {}, 415),
    Cell("retrieve", "remote_run", "", "", {}, 449),
    Cell("local", "forecast_model", "", "", {}, 464),
    Cell("observe", "remote_run", "", "", {}, 482)
  >> \o beer_test_setup \o <<
    Cell("helper_submit", "run_inference", "test_run", "cpu-cluster", {}, 570),
    Cell("observe", "test_run", "", "", {}, 580),
    Cell("helper_submit", "run_multiple_inferences", "test_runs", "cpu-cluster", {}, 591),
    Cell("wait_run", "test_runs", "", "", {}, 610),
    Cell("retrieve", "test_runs", "", "", {}, 611)
  >>

\* src/how-to-use-azureml/monitor-models/data-drift/drift-on-aks.ipynb
drift_on_aks == <<
    Cell("load_ws", "", "", "", {}, 65),
    Cell("upload", "drift-on-aks-data", "", "", {"overwrite"}, 95),
    Cell("register_ds", "drift-demo-dataset", "", "", {}, 109),
    Cell("register_model", "elevation-regression-model.pkl", "", "", {}, 123),
    Cell("compute", "drift-aks", "AksCompute", "", {"try"}, 189),
    Cell("wait_compute", "drift-aks", "", "", {"if_created"}, 197),
    Cell("deploy", "drift-aks-service", "aks", "drift-aks", {"collect_model_data"}, 220),
    Cell("wait_deploy", "drift-aks-service", "", "", {}, 222),
    Cell("local", "NoaaIsdWeather", "", "", {}, 247),
    Cell("call_service", "drift-aks-service", "", "", {}, 270),
    Cell("compute", "cpu-cluster", "AmlCompute", "", {}, 293),
    Cell("wait_compute", "cpu-cluster", "", "", {"if_created", "timeout"}, 306),
    Cell("sleep", "", "", "", {}, 329),
    Cell("monitor_create", "elevation-regression-model.pkl", "", "cpu-cluster", {}, 352),
    Cell("monitor_update", "", "", "", {}, 371),
    Cell("monitor_run", "", "run", "cpu-cluster", {}, 395),
    Cell("sleep", "", "", "", {"long"}, 404),
    Cell("retrieve", "run", "", "", {}, 425),
    Cell("observe", "run", "", "", {}, 435),
    Cell("enable_schedule", "", "", "", {}, 453)
  >>

\* src/unnamed/part_000 (register model and deploy locally)
register_model_deploy_local == <<
    Cell("local", "azureml.core.VERSION", "", "", {}, 50),
    Cell("load_ws", "", "", "", {}, 70),
    Cell("register_model", "sklearn_regression_model_local", "", "", {}, 102),
    Cell("local", "inference_config", "", "", {}, 144),
    Cell("deploy", "test", "local", "", {}, 177),
    Cell("wait_deploy", "test", "", "", {}, 179),
    Cell("call_service", "test", "", "", {}, 238),
    Cell("writefile", "score.py", "", "", {}, 256),
    Cell("reload", "test", "", "", {}, 297),
    Cell("call_service", "test", "", "", {}, 301),
    Cell("delete_service", "test", "", "", {}, 332)
  >>

\* src/unnamed/part_001 (train, hyperparameter tune and deploy with Chainer)
train_hyperparameter_tune_deploy_with_chainer == <<
    Cell("shell", "jupyter nbextension", "", "", {}, 54),
    Cell("local", "set_diagnostics_collection", "", "", {}, 78),
    Cell("load_ws", "", "", "", {}, 97),
    Cell("compute", "gpu-cluster", "AmlCompute", "", {"try"}, 128),
    Cell("wait_compute", "gpu-cluster", "", "", {"if_created"}, 140),
    Cell("build_cfg", "estimator", "", "", {}, 270),
    Cell("submit", "estimator", "run", "gpu-cluster", {}, 299),
    Cell("observe", "run", "", "", {}, 318),
    Cell("build_cfg", "hyperdrive_config", "", "", {"estimator"}, 369),
    Cell("submit", "hyperdrive_config", "hyperdrive_run", "gpu-cluster", {}, 392),
    Cell("observe", "hyperdrive_run", "", "", {}, 409),
    Cell("wait_run", "hyperdrive_run", "", "", {}, 418),
    Cell("retrieve", "hyperdrive_run", "", "", {}, 444),
    Cell("register_model", "chainer-dnn-mnist", "", "", {}, 477),
    Cell("deploy", "chainer-mnist-1", "aci", "", {"auth_enabled"}, 558),
    Cell("wait_deploy", "chainer-mnist-1", "", "", {}, 563),
    Cell("get_keys", "chainer-mnist-1", "", "", {}, 599),
    Cell("call_service", "chainer-mnist-1", "", "", {"http"}, 648),
    Cell("observe", "", "", "", {}, 674),
    Cell("delete_service", "chainer-mnist-1", "", "", {}, 703)
  >>

Program(n) ==
    CASE n = "iris"    -> tabular_dataset_inference_iris
      [] n = "textdnn" -> auto_ml_classification_text_dnn
      [] n = "bank"    -> auto_ml_classification_bank_marketing_all_features
      [] n = "beer"    -> auto_ml_forecasting_beer_remote
      [] n = "drift"   -> drift_on_aks
      [] n = "local"   -> register_model_deploy_local
      [] n = "chainer" -> train_hyperparameter_tune_deploy_with_chainer

Range(seq) == {seq[i] : i \in 1..Len(seq)}
Cells(n) == Range(Program(n))
Max(a, b) == IF a >= b THEN a ELSE b
Min(a, b) == IF a <= b THEN a ELSE b

\* names a notebook uses, read off its cells
ComputeNamesOf(n) == {c.x : c \in {d \in Cells(n) : d.op = "compute"}}
DeclaredType(n, t) == (CHOOSE c \in Cells(n) : c.op = "compute" /\ c.x = t).y
SubmitRuns(n) == {c.y : c \in {d \in Cells(n) : d.op = "submit"}}
RunVarsOf(n) ==
    {c.y : c \in {d \in Cells(n) :
                    d.op \in {"submit", "helper_submit", "monitor_run", "wait_explain"}}}
CfgIdsOf(n) == {c.x : c \in {d \in Cells(n) : d.op = "build_cfg"}}
ServiceNamesOf(n) == {c.x : c \in {d \in Cells(n) : d.op = "deploy"}}
StorageNamesOf(n) ==
    {c.x : c \in {d \in Cells(n) : d.op \in {"upload", "register_datastore"}}}

\* components of a configuration object (constructor arguments that are
\* themselves configuration objects), and everything a submission carries
Parts(n, c) == (CHOOSE d \in Cells(n) : d.op = "build_cfg" /\ d.x = c).f
Closure(n, c) ==
    {c} \cup Parts(n, c) \cup UNION {Parts(n, p) : p \in Parts(n, c)}

\* the six stages of the notebook pattern (0: a purely local statement)
StageOf(op) ==
    CASE op = "load_ws" -> 1
      [] op \in {"compute", "wait_compute", "lookup_compute"} -> 2
      [] op \in {"upload", "register_datastore", "register_ds", "register_model"} -> 3
      [] op \in {"build_cfg", "mutate_cfg", "submit", "helper_submit",
                 "monitor_create", "monitor_update", "monitor_run"} -> 4
      [] op \in {"observe", "wait_run", "wait_explain", "sleep"} -> 5
      [] op \in {"retrieve", "download_explanation", "onnx", "deploy",
                 "wait_deploy", "get_keys", "call_service", "reload",
                 "delete_service", "enable_schedule", "rmtree"} -> 6
      [] OTHER -> 0

\* statements that talk to the platform
RemoteOps ==
    {"load_ws", "compute", "wait_compute", "lookup_compute", "upload",
     "register_datastore", "register_ds", "register_model", "submit",
     "helper_submit", "monitor_create", "monitor_update", "monitor_run",
     "observe", "wait_run", "wait_explain", "retrieve", "download_explanation",
     "deploy", "wait_deploy", "get_keys", "call_service", "delete_service",
     "enable_schedule"}

Terminal == {"completed", "failed", "canceled"}
RunStates == {"none", "queued", "running"} \cup Terminal

NoTarget == [type |-> "none", state |-> "none"]
NoService ==
    [state |-> "none", script |-> "none", image |-> 0, model |-> 0, port |-> 0,
     flags |-> {}]
NoCfg == [built |-> FALSE, submits |-> 0, dirty |-> FALSE]
NoOnnx == [installed |-> FALSE, result |-> "none", was |-> "none"]
NoKey == [service |-> "none", image |-> 0]
NoMonitor == [name |-> "none", version |-> 0, serial |-> 0]
NoCell == [cell |-> "none"]

VARIABLES
    nb, pc, status, execs,                    \* the notebook and its position
    wsLoads, handle, waited, cfg, modelVer,   \* kernel variables
    monitorVar, response, onnxOutcome,
    key1, model_explainability_run_id,
    compute, runs, registry, storage,         \* the workspace on the platform
    services, detectors,
    scoreFile, ort, pyCompat,                 \* the local machine
    clock,                                    \* elapsed time, units of 600 s
    hist,                                     \* record of what the cells did
    ns                                        \* names bound by a cell evaluated alone

control == <<nb, pc, status, execs>>
kernel == <<wsLoads, handle, waited, cfg, modelVer, monitorVar, response, onnxOutcome,
            key1, model_explainability_run_id>>
platform == <<compute, runs, registry, storage, services, detectors>>
machine == <<scoreFile, ort, pyCompat>>
vars == <<control, kernel, platform, machine, clock, hist, ns>>

\* what is kept across executions, and what one execution records
NoHistRun ==
    [firstRemote |-> "none", maxStage |-> 0, regress |-> {},
     submitLog |-> {}, proceedLog |-> {}, retrieveLog |-> {},
     downloadLog |-> {}, failLog |-> {}, inferLog |-> {},
     callLog |-> {}, deployWaited |-> {}, reloads |-> 0,
     monitorLog |-> {}, reruns |-> 0]

InitialTargets(n, t) ==
    {NoTarget,
     [type |-> DeclaredType(n, t), state |-> "ready"],
     [type |-> DeclaredType(n, t), state |-> "creating"],
     [type |-> "Other", state |-> "ready"]}

\* a fresh kernel in front of a workspace
Boot ==
    /\ nb \in Notebooks
    /\ pc = 1
    /\ status = "running"
    /\ execs = 1
    /\ wsLoads = 0
    /\ handle = [t \in ComputeNamesOf(nb) |-> "unset"]
    /\ waited = {}
    /\ cfg = [c \in CfgIdsOf(nb) |-> NoCfg]
    /\ modelVer = 0
    /\ monitorVar = NoMonitor
    /\ response = "none"
    /\ onnxOutcome = NoOnnx
    /\ key1 = NoKey
    /\ model_explainability_run_id = "unset"
    /\ compute \in {f \in [ComputeNamesOf(nb) -> UNION {InitialTargets(nb, t) : t \in ComputeNamesOf(nb)}] :
                        \A t \in ComputeNamesOf(nb) : f[t] \in InitialTargets(nb, t)}
    /\ runs = [r \in RunVarsOf(nb) |-> "none"]
    /\ registry = {}
    /\ storage = [s \in StorageNamesOf(nb) |-> 0]
    /\ services = [s \in ServiceNamesOf(nb) |-> NoService]
    /\ detectors = {}
    /\ scoreFile = "original"
    /\ ort \in IF nb = "bank" THEN {"absent", "0.4.0", "other"} ELSE {"absent"}
    /\ pyCompat \in IF nb = "bank" THEN BOOLEAN ELSE {TRUE}
    /\ clock = 0
    /\ hist = [run |-> NoHistRun, createCalls |-> [t \in ComputeNamesOf(nb) |-> 0],
               created |-> [t \in ComputeNamesOf(nb) |-> 0], createLog |-> {}]

Init ==
    /\ Boot
    /\ ns = NoCell

\* ------------------------------------------------------------------------
\* Execution of one statement
\* ------------------------------------------------------------------------
Cur == Program(nb)[pc]
At(op) == status = "running" /\ pc <= Len(Program(nb)) /\ Cur.op = op

\* the statement completed: the kernel moves to the next one
Advance ==
    /\ pc' = pc + 1
    /\ status' = IF pc + 1 > Len(Program(nb)) THEN "done" ELSE "running"
    /\ UNCHANGED <<nb, execs>>

\* the statement raised and nothing caught it: "Run all" stops at this cell
Halt ==
    /\ status' = "error"
    /\ UNCHANGED <<nb, pc, execs>>

\* stage bookkeeping of an executed statement
Track(h) ==
    [h EXCEPT
       !.run.firstRemote =
           IF @ = "none" /\ Cur.op \in RemoteOps THEN Cur.op ELSE @,
       !.run.maxStage = Max(@, StageOf(Cur.op)),
       !.run.regress =
           IF StageOf(Cur.op) > 0 /\ StageOf(Cur.op) < h.run.maxStage
           THEN @ \cup {[line |-> Cur.line, stage |-> StageOf(Cur.op),
                         after |-> h.run.maxStage]}
           ELSE @]

\* an exception of a statement and what became of it
Failure(line, exc, outcome) == [line |-> line, exc |-> exc, outcome |-> outcome]
Propagated(h, exc) ==
    [h EXCEPT !.run.failLog = @ \cup {Failure(Cur.line, exc, "propagated")}]
Caught(h, line, exc, outcome) ==
    [h EXCEPT !.run.failLog = @ \cup {Failure(line, exc, outcome)}]

\* runs obtained from experiment.submit that have not reached a terminal state
Pending == {r \in SubmitRuns(nb) : runs[r] \in {"queued", "running"}}
Proceed(h) ==
    [h EXCEPT !.run.proceedLog = @ \cup {[line |-> Cur.line, pending |-> Pending]}]

\* variant: every prediction is computed by the kernel itself
InferSite_M(c) == "notebook"

\* where the model is evaluated when a statement asks for predictions
InferSite(c) ==
    CASE c.op \in {"predict", "onnx"} -> "notebook"
      [] c.op = "call_service" -> "service"
      [] c.op = "helper_submit" -> "run"
      [] OTHER -> "none"
Inferred(h, line) ==
    [h EXCEPT !.run.inferLog = @ \cup {[line |-> line, site |-> InferSite(Cur)]}]

\* ws = Workspace.from_config()
LoadWs ==
    /\ At("load_ws")
    /\ wsLoads' = wsLoads + 1
    /\ hist' = Track(hist)
    /\ Advance
    /\ UNCHANGED <<handle, waited, cfg, modelVer, monitorVar, response, onnxOutcome,
                   key1, model_explainability_run_id,
                   platform, machine, clock, ns>>

\* a statement that only computes locally
Local ==
    /\ At("local")
    /\ hist' = Track(hist)
    /\ Advance
    /\ UNCHANGED <<kernel, platform, machine, clock, ns>>

\* y_pred = fitted_model.predict(X_test)
Predict ==
    /\ At("predict")
    /\ hist' = Inferred(Track(hist), Cur.line)
    /\ Advance
    /\ UNCHANGED <<kernel, platform, machine, clock, ns>>

\* "!" shell command: its exit status is not looked at
Shell ==
    /\ At("shell")
    /\ \E ok \in BOOLEAN :
         hist' = IF ok THEN Track(hist)
                 ELSE Caught(Track(hist), Cur.line, "ShellExit", "unchecked")
    /\ Advance
    /\ UNCHANGED <<kernel, platform, machine, clock, ns>>

\* shutil.rmtree(..., ignore_errors=True)
Rmtree ==
    /\ At("rmtree")
    /\ \E ok \in BOOLEAN :
         hist' = IF ok THEN Track(hist)
                 ELSE Caught(Track(hist), Cur.line, "OSError", "ignored")
    /\ Advance
    /\ UNCHANGED <<kernel, platform, machine, clock, ns>>

\* any statement may raise an exception that no handler of the cell catches
Raise ==
    /\ status = "running"
    /\ pc <= Len(Program(nb))
    /\ hist' = Propagated(hist, "Exception")
    /\ Halt
    /\ UNCHANGED <<kernel, platform, machine, clock, ns>>

\* ------------------------------------------------------------------------
\* Compute get-or-create
\* ------------------------------------------------------------------------
\* variant: a target that is still being provisioned counts as missing
Found_M(c) ==
    compute[c.x].type /= "none" /\ compute[c.x].state = "ready"

\* the test the cell makes before it decides to create
Found(c) ==
    IF "type_test" \in c.f
    THEN compute[c.x].type = "AmlCompute"
    ELSE compute[c.x].type /= "none"

\* variant: the handler of the lookup catches every exception and goes on
LookupMiss_M(h, c) == Caught(h, c.line, "Exception", "swallowed")

\* the lookup that fails is an exception only where the cell uses try/except
LookupMiss(h, c) ==
    IF "try" \in c.f THEN Caught(h, c.line, "NotFound", "get_or_create") ELSE h

CreateCalled(h, c) ==
    [h EXCEPT !.createCalls[c.x] = @ + 1,
              !.createLog = @ \cup {[name |-> c.x, existing |-> compute[c.x].type]}]

ComputeFound ==
    /\ At("compute")
    /\ Found(Cur)
    /\ handle' = [handle EXCEPT ![Cur.x] = "found"]
    /\ hist' = Track(hist)
    /\ Advance
    /\ UNCHANGED <<wsLoads, waited, cfg, modelVer, monitorVar, response, onnxOutcome,
                   key1, model_explainability_run_id,
                   platform, machine, clock, ns>>

\* ComputeTarget.create(ws, name, provisioning_config) accepted by the platform
ComputeCreate ==
    /\ At("compute")
    /\ ~Found(Cur)
    /\ compute' = [compute EXCEPT ![Cur.x] = [type |-> Cur.y, state |-> "creating"]]
    /\ handle' = [handle EXCEPT ![Cur.x] = "created"]
    /\ hist' = [CreateCalled(LookupMiss(Track(hist), Cur), Cur)
                  EXCEPT !.created[Cur.x] = @ + 1]
    /\ Advance
    /\ UNCHANGED <<wsLoads, waited, cfg, modelVer, monitorVar, response, onnxOutcome,
                   key1, model_explainability_run_id,
                   runs, registry, storage, services, detectors, machine, clock, ns>>

\* ComputeTarget.create refused by the platform (quota, name in use, ...)
ComputeCreateFails ==
    /\ At("compute")
    /\ ~Found(Cur)
    /\ hist' = Propagated(CreateCalled(LookupMiss(Track(hist), Cur), Cur),
                          "ComputeTargetException")
    /\ Halt
    /\ UNCHANGED <<kernel, platform, machine, clock, ns>>

\* compute_target.wait_for_completion(...)
\* variant: the wait sits inside the creation branch of every cell
WaitSkipped_M(c) == handle[c.x] /= "created"
WaitSkipped(c) == "if_created" \in c.f /\ handle[c.x] /= "created"
WaitCompute ==
    /\ At("wait_compute")
    /\ IF WaitSkipped(Cur)
       THEN UNCHANGED waited
       ELSE /\ compute[Cur.x].state /= "creating" \/ "timeout" \in Cur.f
            /\ waited' = waited \cup {Cur.x}
    /\ hist' = Track(hist)
    /\ Advance
    /\ UNCHANGED <<wsLoads, handle, cfg, modelVer, monitorVar, response, onnxOutcome,
                   key1, model_explainability_run_id,
                   platform, machine, clock, ns>>

\* compute_target = ws.compute_targets[name]
LookupCompute ==
    /\ At("lookup_compute")
    /\ IF compute[Cur.x].type /= "none"
       THEN /\ handle' = [handle EXCEPT ![Cur.x] = IF @ = "unset" THEN "found" ELSE @]
            /\ hist' = Track(hist)
            /\ Advance
       ELSE /\ UNCHANGED handle
            /\ hist' = Propagated(Track(hist), "KeyError")
            /\ Halt
    /\ UNCHANGED <<wsLoads, waited, cfg, modelVer, monitorVar, response, onnxOutcome,
                   key1, model_explainability_run_id,
                   platform, machine, clock, ns>>

\* ------------------------------------------------------------------------
\* Storage and registry
\* ------------------------------------------------------------------------
\* datastore.upload(..., overwrite=True) and
\* Datastore.register_azure_blob_container(..., overwrite=True)
Upload ==
    /\ At("upload") \/ At("register_datastore")
    /\ storage' = [storage EXCEPT ![Cur.x] = execs]
    /\ hist' = Track(hist)
    /\ Advance
    /\ UNCHANGED <<kernel, compute, runs, registry, services, detectors, machine, clock, ns>>

Versions(kind, name) ==
    {r.version : r \in {q \in registry : q.kind = kind /\ q.name = name}}
MaxVersion(kind, name) ==
    IF Versions(kind, name) = {} THEN 0
    ELSE CHOOSE v \in Versions(kind, name) : \A w \in Versions(kind, name) : w <= v
Record(kind, name, version) ==
    [kind |-> kind, name |-> name, version |-> version, exec |-> execs]

\* variant: a registration replaces what was registered under the name
Registered_M(kind, name) ==
    {r \in registry : ~(r.kind = kind /\ r.name = name)}
        \cup {Record(kind, name, MaxVersion(kind, name) + 1)}

\* the registry after a registration under a name: a further version record
Registered(kind, name) ==
    registry \cup {Record(kind, name, MaxVersion(kind, name) + 1)}

\* dataset.register(ws, name, create_new_version=...)
RegisterDataset ==
    /\ At("register_ds")
    /\ \/ /\ Versions("dataset", Cur.x) = {} \/ "create_new_version" \in Cur.f
          /\ registry' = Registered("dataset", Cur.x)
          /\ hist' = Track(hist)
          /\ Advance
       \/ \* the name is taken and no new version was asked for: the
          \* registered dataset is handed back
          /\ Versions("dataset", Cur.x) /= {} /\ "create_new_version" \notin Cur.f
          /\ UNCHANGED registry
          /\ hist' = Track(hist)
          /\ Advance
       \/ \* ... or the registration is refused
          /\ Versions("dataset", Cur.x) /= {} /\ "create_new_version" \notin Cur.f
          /\ UNCHANGED registry
          /\ hist' = Propagated(Track(hist), "Exception")
          /\ Halt
    /\ UNCHANGED <<kernel, compute, runs, storage, services, detectors, machine, clock, ns>>

\* Model.register(...), run.register_model(...)
RegisterModel ==
    /\ At("register_model")
    /\ registry' = Registered("model", Cur.x)
    /\ modelVer' = MaxVersion("model", Cur.x) + 1
    /\ hist' = Track(hist)
    /\ Advance
    /\ UNCHANGED <<wsLoads, handle, waited, cfg, monitorVar, response, onnxOutcome,
                   key1, model_explainability_run_id,
                   compute, runs, storage, services, detectors, machine, clock, ns>>

\* ------------------------------------------------------------------------
\* Run configurations and submissions
\* ------------------------------------------------------------------------
\* a constructor call: a new configuration object bound to the name
BuildCfg ==
    /\ At("build_cfg")
    /\ cfg' = [cfg EXCEPT ![Cur.x] = [built |-> TRUE, submits |-> 0, dirty |-> FALSE]]
    /\ hist' = Track(hist)
    /\ Advance
    /\ UNCHANGED <<wsLoads, handle, waited, modelVer, monitorVar, response, onnxOutcome,
                   key1, model_explainability_run_id,
                   platform, machine, clock, ns>>

\* attribute assignment on a configuration object
MutateCfg ==
    /\ At("mutate_cfg")
    /\ cfg' = [cfg EXCEPT ![Cur.x].dirty = @ \/ cfg[Cur.x].submits > 0]
    /\ hist' = Track(hist)
    /\ Advance
    /\ UNCHANGED <<wsLoads, handle, waited, modelVer, monitorVar, response, onnxOutcome,
                   key1, model_explainability_run_id,
                   platform, machine, clock, ns>>

Submission(c, via) ==
    [run |-> c.y, target |-> c.z, how |-> handle[c.z], waited |-> c.z \in waited,
     state |-> compute[c.z].state, via |-> via, line |-> c.line]
Submitted(h, c, via) ==
    [Proceed(h) EXCEPT !.run.submitLog = @ \cup {Submission(c, via)}]

\* run = experiment.submit(config)
Submit ==
    /\ At("submit")
    /\ runs' = [runs EXCEPT ![Cur.y] = "queued"]
    /\ cfg' = [c \in DOMAIN cfg |->
                 IF c \in Closure(nb, Cur.x)
                 THEN [cfg[c] EXCEPT !.submits = @ + 1] ELSE cfg[c]]
    /\ hist' = Submitted(Track(hist), Cur, "submit")
    /\ Advance
    /\ UNCHANGED <<wsLoads, handle, waited, modelVer, monitorVar, response, onnxOutcome,
                   key1, model_explainability_run_id,
                   compute, registry, storage, services, detectors, machine, clock, ns>>

\* run_inference(...), run_multiple_inferences(...) of helper.py: the
\* submission happens inside the helper and a run handle comes back
HelperSubmit ==
    /\ At("helper_submit")
    /\ runs' = [runs EXCEPT ![Cur.y] = "queued"]
    /\ hist' = Inferred(Submitted(Track(hist), Cur, "helper"), Cur.line)
    /\ Advance
    /\ UNCHANGED <<kernel, compute, registry, storage, services, detectors, machine, clock, ns>>

\* RunDetails(run).show(), run.get_details(), displaying a handle: the run
\* is looked at and the cell returns at once
\* variant: looking at a run that has not finished cancels it
RunsAfterObserve_M(r) ==
    IF r \in DOMAIN runs /\ runs[r] \in {"queued", "running"}
    THEN [runs EXCEPT ![r] = "canceled"] ELSE runs
RunsAfterObserve(r) == runs
Observe ==
    /\ At("observe")
    /\ runs' = RunsAfterObserve(Cur.x)
    /\ hist' = Track(hist)
    /\ Advance
    /\ UNCHANGED <<kernel, compute, registry, storage, services, detectors, machine, clock, ns>>

\* run.wait_for_completion(): returns once the run is terminal; a run that
\* did not complete may make it raise
\* variant: the wait returns as soon as the run exists
RunDone_M(r) == runs[r] /= "none"
RunDone(r) == runs[r] \in Terminal
WaitRun ==
    /\ At("wait_run")
    /\ RunDone(Cur.x)
    /\ \/ /\ hist' = Track(hist)
          /\ Advance
       \/ /\ runs[Cur.x] /= "completed"
          /\ hist' = Propagated(Track(hist), "ActivityFailedException")
          /\ Halt
    /\ UNCHANGED <<kernel, platform, machine, clock, ns>>

\* model_explainability_run_id = remote_run.get_properties().get('ModelExplainRunId')
\* if model_explainability_run_id is not None: ... wait_for_completion()
\* variant: the wait returns whatever the state of the explanation run
ExplainWaitOver_M(e) == TRUE
\* the explanation run is waited for only if the AutoML run names one
ExplainWaitOver(e) == runs[e] = "none" \/ runs[e] \in Terminal
WaitExplain ==
    /\ At("wait_explain")
    /\ ExplainWaitOver(Cur.y)
    /\ model_explainability_run_id' = IF runs[Cur.y] = "none" THEN "None" ELSE "set"
    /\ hist' = Track(hist)
    /\ Advance
    /\ UNCHANGED <<wsLoads, handle, waited, cfg, modelVer, monitorVar, response,
                   onnxOutcome, key1, platform, machine, clock, ns>>

\* get_output, get_children, get_best_run_by_primary_metric, get_metrics,
\* download_file, ...: results are read off the run as it is now
Retrieval(c) == [run |-> c.x, state |-> runs[c.x], line |-> c.line]
Retrieve ==
    /\ At("retrieve")
    /\ \/ /\ hist' = [Proceed(Track(hist)) EXCEPT
                        !.run.retrieveLog = @ \cup {Retrieval(Cur)}]
          /\ Advance
       \/ /\ runs[Cur.x] /= "completed"
          /\ hist' = [Propagated(Proceed(Track(hist)), "Exception") EXCEPT
                        !.run.retrieveLog = @ \cup {Retrieval(Cur)}]
          /\ Halt
    /\ UNCHANGED <<kernel, platform, machine, clock, ns>>

\* ExplanationClient.from_run(best_run).download_model_explanation(raw=...)
DownloadExplanation ==
    /\ At("download_explanation")
    /\ hist' = [Track(hist) EXCEPT
                  !.run.downloadLog = @ \cup
                      {[line |-> Cur.line,
                        explain |-> runs["model_explainability_run"],
                        id |-> model_explainability_run_id]}]
    /\ Advance
    /\ UNCHANGED <<kernel, platform, machine, clock, ns>>

\* time.sleep(600), time.sleep(1200)
\* variant: the first sleep returns at once
SleepUnits_M(c) == IF "long" \in c.f THEN 2 ELSE 0
\* the length of a sleep, in units of 600 seconds
SleepUnits(c) == IF "long" \in c.f THEN 2 ELSE 1
Sleep ==
    /\ At("sleep")
    /\ clock' = Min(MaxClock, clock + SleepUnits(Cur))
    /\ hist' = Track(hist)
    /\ Advance
    /\ UNCHANGED <<kernel, platform, machine, ns>>

\* ------------------------------------------------------------------------
\* Web services
\* ------------------------------------------------------------------------
\* the service a deployment sets up: an image built from the entry script as
\* it is on disk, the registered model, and the deployment configuration
Deployed(c) ==
    [state |-> "deploying",
     script |-> IF c.y = "local" THEN scoreFile ELSE "original",
     image |-> execs,
     model |-> modelVer,
     port |-> IF c.y = "local" THEN 6789 ELSE 0,
     flags |-> c.f]

\* service = Model.deploy(ws, name, [model], inference_config, deployment_config)
Deploy ==
    /\ At("deploy")
    /\ \/ /\ services[Cur.x].state = "none" \/ Cur.y = "local"
          /\ services' = [services EXCEPT ![Cur.x] = Deployed(Cur)]
          /\ hist' = Proceed(Track(hist))
          /\ Advance
       \/ \* a service of that name is still deployed
          /\ services[Cur.x].state /= "none"
          /\ UNCHANGED services
          /\ hist' = Propagated(Proceed(Track(hist)), "WebserviceException")
          /\ Halt
    /\ UNCHANGED <<kernel, compute, runs, registry, storage, detectors, machine, clock, ns>>

\* service.wait_for_deployment()
WaitDeploy ==
    /\ At("wait_deploy")
    /\ services[Cur.x].state \in {"healthy", "failed"}
    /\ IF services[Cur.x].state = "healthy"
       THEN /\ hist' = [Track(hist) EXCEPT !.run.deployWaited = @ \cup {Cur.x}]
            /\ Advance
       ELSE /\ hist' = Propagated(Track(hist), "WebserviceException")
            /\ Halt
    /\ UNCHANGED <<kernel, platform, machine, clock, ns>>

\* run(data) of the score.py written by the notebook (part_000, 281-288)
ScoreRun(predictOk) ==
    IF predictOk THEN "hello from updated score.py" ELSE "error_string"

\* variant: get_keys hands back no key
KeysOf_M(x) == NoKey
\* the primary key of a service: generated when the service is deployed
KeysOf(x) == [service |-> x, image |-> services[x].image]

\* key1, Key2 = service.get_keys()
GetKeys ==
    /\ At("get_keys")
    /\ IF services[Cur.x].state = "healthy" /\ "auth_enabled" \in services[Cur.x].flags
       THEN /\ key1' = KeysOf(Cur.x)
            /\ hist' = Track(hist)
            /\ Advance
       ELSE /\ UNCHANGED key1
            /\ hist' = Propagated(Track(hist), "WebserviceException")
            /\ Halt
    /\ UNCHANGED <<wsLoads, handle, waited, cfg, modelVer, monitorVar, response,
                   onnxOutcome, model_explainability_run_id,
                   platform, machine, clock, ns>>

\* a request to a service and the answer it got
Call(h, c, answer, ok) ==
    [line |-> c.line, service |-> c.x, response |-> answer, ok |-> ok,
     reloads |-> h.run.reloads, clock |-> clock,
     flags |-> services[c.x].flags, image |-> services[c.x].image,
     waited |-> c.x \in h.run.deployWaited,
     key |-> IF "http" \in c.f THEN key1 ELSE NoKey]
Called(h, answer, ok) ==
    [h EXCEPT !.run.callLog = @ \cup {Call(h, Cur, answer, ok)}]

\* service.run(input_data=...), requests.post(service.scoring_uri, ...)
CallService ==
    /\ At("call_service")
    /\ \/ /\ services[Cur.x].state /= "healthy"
          /\ UNCHANGED response
          /\ hist' = Propagated(Called(Track(hist), "none", FALSE),
                                "WebserviceException")
          /\ Halt
       \/ /\ services[Cur.x].state = "healthy"
          /\ services[Cur.x].script = "updated"
          /\ \E predictOk \in BOOLEAN :
               /\ response' = ScoreRun(predictOk)
               /\ hist' = LET h == Called(Track(hist), ScoreRun(predictOk), predictOk)
                          IN IF predictOk THEN Inferred(h, Cur.line)
                             ELSE Caught(h, 286, "Exception", "returned_as_value")
          /\ Advance
       \/ \* an entry script that is not part of the notebook answered
          /\ services[Cur.x].state = "healthy"
          /\ services[Cur.x].script = "original"
          /\ response' = "result"
          /\ hist' = Inferred(Called(Track(hist), "result", TRUE), Cur.line)
          /\ Advance
       \/ \* ... or failed: an HTTP error status is not an exception
          /\ services[Cur.x].state = "healthy"
          /\ services[Cur.x].script = "original"
          /\ "http" \in Cur.f
          /\ response' = "http_error"
          /\ hist' = Caught(Called(Track(hist), "http_error", FALSE),
                            Cur.line, "HTTPStatus", "unchecked")
          /\ Advance
       \/ /\ services[Cur.x].state = "healthy"
          /\ services[Cur.x].script = "original"
          /\ "http" \notin Cur.f
          /\ UNCHANGED response
          /\ hist' = Propagated(Called(Track(hist), "none", FALSE),
                                "WebserviceException")
          /\ Halt
       \/ \* ... or caught the exception itself and answered with its text
          /\ services[Cur.x].state = "healthy"
          /\ services[Cur.x].script = "original"
          /\ "http" \notin Cur.f
          /\ response' = "error_string"
          /\ hist' = Caught(Called(Track(hist), "error_string", FALSE),
                            Cur.line, "Exception", "returned_as_value")
          /\ Advance
    /\ UNCHANGED <<wsLoads, handle, waited, cfg, modelVer, monitorVar, onnxOutcome,
                   key1, model_explainability_run_id, platform, machine, clock, ns>>

\* %%writefile score.py
Writefile ==
    /\ At("writefile")
    /\ scoreFile' = "updated"
    /\ hist' = Track(hist)
    /\ Advance
    /\ UNCHANGED <<kernel, platform, ort, pyCompat, clock, ns>>

\* local_service.reload(): the container is restarted on copies of the
\* entry script and dependency files as they are on disk; the image is kept
\* variant: the restarted container keeps the script it was started with
Reloaded_M(s) == s
Reloaded(s) == [s EXCEPT !.script = scoreFile]
Reload ==
    /\ At("reload")
    /\ IF services[Cur.x].state = "healthy"
       THEN /\ services' = [services EXCEPT ![Cur.x] = Reloaded(@)]
            /\ hist' = [Track(hist) EXCEPT !.run.reloads = @ + 1]
            /\ Advance
       ELSE /\ UNCHANGED services
            /\ hist' = Propagated(Track(hist), "WebserviceException")
            /\ Halt
    /\ UNCHANGED <<kernel, compute, runs, registry, storage, detectors, machine, clock, ns>>

\* service.delete()
DeleteService ==
    /\ At("delete_service")
    /\ services' = [services EXCEPT ![Cur.x] = NoService]
    /\ hist' = Track(hist)
    /\ Advance
    /\ UNCHANGED <<kernel, compute, runs, registry, storage, detectors, machine, clock, ns>>

\* ------------------------------------------------------------------------
\* Data drift monitor
\* ------------------------------------------------------------------------
\* try: DataDriftDetector.create_from_model(ws, model.name, model.version, ...)
\* except KeyError: DataDriftDetector.get(ws, model.name, model.version)
DetectorsFor(name, version) ==
    {d \in detectors : d.name = name /\ d.version = version}
NewDetector(name, version) ==
    [name |-> name, version |-> version, serial |-> Cardinality(detectors) + 1]

\* variant: create_from_model does not notice the detector that is there
Exists_M(name, version) == FALSE
\* create_from_model raises KeyError when the model version has a detector
Exists(name, version) == DetectorsFor(name, version) /= {}

MonitorEvent(h, what) ==
    [h EXCEPT !.run.monitorLog = @ \cup {[what |-> what, clock |-> clock]}]

\* the monitor cell, executed for the statement c
MonitorCell(h, c) ==
    IF Exists(c.x, modelVer)
    THEN /\ monitorVar' = CHOOSE d \in DetectorsFor(c.x, modelVer) : TRUE
         /\ UNCHANGED detectors
         /\ hist' = Caught(MonitorEvent(h, "get"), 358, "KeyError", "get_or_create")
    ELSE /\ monitorVar' = NewDetector(c.x, modelVer)
         /\ detectors' = detectors \cup {NewDetector(c.x, modelVer)}
         /\ hist' = MonitorEvent(h, "create")

MonitorCreate ==
    /\ At("monitor_create")
    /\ MonitorCell(Track(hist), Cur)
    /\ Advance
    /\ UNCHANGED <<wsLoads, handle, waited, cfg, modelVer, response, onnxOutcome,
                   key1, model_explainability_run_id,
                   compute, runs, registry, storage, services, machine, clock, ns>>

\* the monitor cell executed once more in the same kernel, before the next
\* cell is run
MonitorCreateAgain ==
    /\ status = "running"
    /\ pc > 1
    /\ pc <= Len(Program(nb))
    /\ Program(nb)[pc - 1].op = "monitor_create"
    /\ hist.run.reruns < MaxReruns
    /\ MonitorCell([hist EXCEPT !.run.reruns = @ + 1], Program(nb)[pc - 1])
    /\ UNCHANGED <<control, wsLoads, handle, waited, cfg, modelVer, response,
                   onnxOutcome, key1, model_explainability_run_id,
                   compute, runs, registry, storage, services, machine, clock, ns>>

\* monitor.update(drift_threshold = 0.1), monitor.enable_schedule()
MonitorCall ==
    /\ At("monitor_update") \/ At("enable_schedule")
    /\ hist' = Track(hist)
    /\ Advance
    /\ UNCHANGED <<kernel, platform, machine, clock, ns>>

\* run = monitor.run(target_date, services, ...)
MonitorRun ==
    /\ At("monitor_run")
    /\ runs' = [runs EXCEPT ![Cur.y] = "queued"]
    /\ hist' = MonitorEvent(Submitted(Track(hist), Cur, "monitor"), "run")
    /\ Advance
    /\ UNCHANGED <<kernel, compute, registry, storage, services, detectors, machine, clock, ns>>

\* ------------------------------------------------------------------------
\* The ONNX cell of the bank marketing notebook (594-635)
\* ------------------------------------------------------------------------
Onnx ==
    /\ At("onnx")
    /\ LET imported == ort /= "absent"
           present == ort = "0.4.0"
           h1 == IF imported THEN Track(hist)
                 ELSE Caught(Track(hist), 606, "ImportError", "recovered")
       IN \E pipOk \in BOOLEAN :
            /\ ort' = IF ~present /\ pipOk THEN "0.4.0" ELSE ort
            /\ LET h2 == IF ~present /\ ~pipOk
                         THEN Caught(h1, 612, "ShellExit", "unchecked") ELSE h1
               IN IF pyCompat /\ ~imported
                  THEN \* OnnxInferenceHelper was never imported
                       /\ onnxOutcome' = [installed |-> ~present, result |-> "NameError",
                                          was |-> ort]
                       /\ hist' = Propagated(h2, "NameError")
                       /\ Halt
                  ELSE /\ onnxOutcome' =
                            [installed |-> ~present,
                             result |-> IF pyCompat THEN "predicted" ELSE "message",
                             was |-> ort]
                       /\ hist' = IF pyCompat THEN Inferred(h2, 627) ELSE h2
                       /\ Advance
    /\ UNCHANGED <<wsLoads, handle, waited, cfg, modelVer, monitorVar, response,
                   key1, model_explainability_run_id,
                   platform, scoreFile, pyCompat, clock, ns>>

\* ------------------------------------------------------------------------
\* The platform
\* ------------------------------------------------------------------------
PlatformProvision ==
    \E t \in DOMAIN compute :
      /\ compute[t].state = "creating"
      /\ \E s \in {"ready", "failed"} :
           compute' = [compute EXCEPT ![t].state = s]
      /\ UNCHANGED <<control, kernel, runs, registry, storage, services, detectors,
                     machine, clock, hist, ns>>

RunNext(s) ==
    CASE s = "queued"  -> {"running", "canceled"}
      [] s = "running" -> Terminal
      [] OTHER -> {}

PlatformRun ==
    \E r \in DOMAIN runs :
      /\ r /= "model_explainability_run"
      /\ \E s \in RunNext(runs[r]) : runs' = [runs EXCEPT ![r] = s]
      /\ UNCHANGED <<control, kernel, compute, registry, storage, services, detectors,
                     machine, clock, hist, ns>>

\* AutoML may start a run that explains the best model
PlatformExplain ==
    /\ "model_explainability_run" \in DOMAIN runs
    /\ LET e == "model_explainability_run" IN
       \/ /\ runs[e] = "none"
          /\ runs["remote_run"] \in {"running", "completed"}
          /\ runs' = [runs EXCEPT ![e] = "queued"]
       \/ \E s \in RunNext(runs[e]) : runs' = [runs EXCEPT ![e] = s]
    /\ UNCHANGED <<control, kernel, compute, registry, storage, services, detectors,
                   machine, clock, hist, ns>>

PlatformDeploy ==
    \E s \in DOMAIN services :
      /\ services[s].state = "deploying"
      /\ \E st \in {"healthy", "failed"} :
           services' = [services EXCEPT ![s].state = st]
      /\ UNCHANGED <<control, kernel, compute, runs, registry, storage, detectors,
                     machine, clock, hist, ns>>

\* ------------------------------------------------------------------------
\* Executing the notebook again: a new kernel, the same workspace
\* ------------------------------------------------------------------------
Restart ==
    /\ status \in {"done", "error"}
    /\ execs < MaxExecs
    /\ execs' = execs + 1
    /\ pc' = 1
    /\ status' = "running"
    /\ wsLoads' = 0
    /\ handle' = [t \in DOMAIN handle |-> "unset"]
    /\ waited' = {}
    /\ cfg' = [c \in DOMAIN cfg |-> NoCfg]
    /\ modelVer' = 0
    /\ monitorVar' = NoMonitor
    /\ response' = "none"
    /\ onnxOutcome' = NoOnnx
    /\ key1' = NoKey
    /\ model_explainability_run_id' = "unset"
    /\ runs' = [r \in DOMAIN runs |-> "none"]
    /\ clock' = 0
    /\ hist' = [hist EXCEPT !.run = NoHistRun]
    /\ UNCHANGED <<nb, compute, registry, storage, services, detectors, machine, ns>>

Next ==
    \/ LoadWs \/ Local \/ Predict \/ Shell \/ Rmtree \/ Raise
    \/ ComputeFound \/ ComputeCreate \/ ComputeCreateFails \/ WaitCompute
    \/ LookupCompute
    \/ Upload \/ RegisterDataset \/ RegisterModel
    \/ BuildCfg \/ MutateCfg \/ Submit \/ HelperSubmit
    \/ Observe \/ WaitRun \/ WaitExplain \/ Retrieve \/ DownloadExplanation
    \/ Sleep
    \/ Deploy \/ WaitDeploy \/ GetKeys \/ CallService \/ Writefile \/ Reload \/ DeleteService
    \/ MonitorCreate \/ MonitorCreateAgain \/ MonitorCall \/ MonitorRun
    \/ Onnx
    \/ PlatformProvision \/ PlatformRun \/ PlatformExplain \/ PlatformDeploy
    \/ Restart

Spec == Init /\ [][Next]_vars

\* ------------------------------------------------------------------------
\* Cells evaluated alone: what a cell computes from the names it reads
\* ------------------------------------------------------------------------
Unbound == "unbound"

\* --- bank marketing, the cell "Add missing values in 75% of the lines"
\* a frame of n rows and f columns without missing values
Frame(n, f) == [r \in 1..n |-> [c \in 1..f |-> "value"]]

MissingInputs ==
    {[cell |-> "missing", done |-> FALSE, data |-> Frame(n, f),
      before |-> Frame(n, f), n_missing_samples |-> 0,
      missing_samples |-> {}, missing_features |-> <<>>, values |-> Unbound] :
        n \in 1..MaxRows, f \in 1..MaxCols}

\* int(np.floor(data.shape[0] * missing_rate)) with missing_rate = 0.75
Floor75(n) == (3 * n) \div 4

\* np.where(missing_samples)[0] lists the chosen rows in ascending order
Rank(rows, r) == Cardinality({x \in rows : x <= r})

\* arr[rows, features] = np.nan on the array arr
Assigned(arr, rows, features) ==
    [r \in DOMAIN arr |->
       [c \in DOMAIN arr[r] |->
          IF r \in rows /\ c = features[Rank(rows, r)] + 1
          THEN "nan" ELSE arr[r][c]]]

\* data.values: the block of the frame itself when all columns share one
\* dtype, a consolidated copy when they do not
ValuesOutcomes == {"view", "copy"}

InjectMissing ==
    /\ ns.cell = "missing"
    /\ ~ns.done
    /\ LET n == Len(ns.data)
           f == Len(ns.data[1])
           k == Floor75(n)
       IN \E rows \in {S \in SUBSET (1..n) : Cardinality(S) = k} :
          \E features \in [1..k -> 0..(f - 1)] :
          \E v \in ValuesOutcomes :
             ns' = [ns EXCEPT
                      !.done = TRUE,
                      !.n_missing_samples = k,
                      !.missing_samples = rows,
                      !.missing_features = features,
                      !.values = v,
                      !.data = IF v = "view"
                               THEN Assigned(ns.data, rows, features)
                               ELSE ns.data]
    /\ UNCHANGED <<control, kernel, platform, machine, clock, hist>>

\* --- chainer, the cell that tests the deployed service (part_001, 603-655)
Rows == [1..1 -> 0..MaxPixel]
\* X_test and y_test: the images and the labels of the same n samples
TestSet(n) ==
    {[cell |-> "request", done |-> FALSE, X_test |-> x, y_test |-> y,
      random_index |-> 0, input_data |-> <<>>, label |-> 0, raised |-> "none"] :
        x \in [1..n -> Rows], y \in [1..n -> 0..MaxLabel]}
RequestInputs == UNION {TestSet(n) : n \in 1..MaxItems}

\* str(n) of a non-negative integer: its decimal digits
DigitChar(d) == <<"0", "1", "2", "3", "4", "5", "6", "7", "8", "9">>[d + 1]
RECURSIVE str(_)
str(n) == IF n < 10 THEN <<DigitChar(n)>>
          ELSE str(n \div 10) \o <<DigitChar(n % 10)>>

\* "{\"data\": [" + text + "]}" as the sequence of its pieces
Body(text) == <<"{\"data\": [">> \o text \o <<"]}">>

\* the text of a pixel row written as a JSON list
RECURSIVE Joined(_)
Joined(row) ==
    IF Len(row) = 0 THEN <<>>
    ELSE IF Len(row) = 1 THEN str(row[1])
    ELSE str(row[1]) \o <<", ">> \o Joined(Tail(row))
RowText(row) == <<"[">> \o Joined(row) \o <<"]">>

\* np.random.randint(0, len(X_test)-1): an index below len(X_test) - 1
RandomIndexes(x) == 0..(Len(x) - 2)

BuildRequest ==
    /\ ns.cell = "request"
    /\ ~ns.done
    /\ IF RandomIndexes(ns.X_test) = {}
       THEN ns' = [ns EXCEPT !.done = TRUE, !.raised = "ValueError"]
       ELSE \E i \in RandomIndexes(ns.X_test) :
              ns' = [ns EXCEPT
                       !.done = TRUE,
                       !.random_index = i,
                       !.input_data = Body(str(i)),
                       !.label = ns.y_test[i + 1]]
    /\ UNCHANGED <<control, kernel, platform, machine, clock, hist>>

\* --- beer forecasting, the cell that picks the DNN run (464-469)
Algorithms == {"TCNForecaster", "ForecastTCN", "AutoArima"}
RunIds == {"AutoML_1", "AutoML_2"}
\* summary_df['run_id']: a series of run ids indexed by algorithm name
ForecastInputs ==
    {[cell |-> "forecast", done |-> FALSE, run_id |-> series,
      forecast_model |-> Unbound, best_dnn_run_id |-> Unbound,
      best_dnn_run |-> Unbound, raised |-> "none"] :
        series \in UNION {[index -> RunIds] : index \in SUBSET Algorithms}}

\* variant: "in" looks through the values of the series
Contains_M(series, key) == \E label \in DOMAIN series : series[label] = key
\* key in series: membership in the index of the series
Contains(series, key) == key \in DOMAIN series

SelectForecastModel ==
    /\ ns.cell = "forecast"
    /\ ~ns.done
    /\ LET forecast_model ==
               IF ~Contains(ns.run_id, "TCNForecaster")
               THEN "ForecastTCN" ELSE "TCNForecaster"
       IN IF forecast_model \in DOMAIN ns.run_id
          THEN ns' = [ns EXCEPT
                        !.done = TRUE,
                        !.forecast_model = forecast_model,
                        !.best_dnn_run_id = ns.run_id[forecast_model],
                        !.best_dnn_run = ns.run_id[forecast_model]]
          ELSE ns' = [ns EXCEPT
                        !.done = TRUE,
                        !.forecast_model = forecast_model,
                        !.raised = "KeyError"]
    /\ UNCHANGED <<control, kernel, platform, machine, clock, hist>>

CellInputs == MissingInputs \cup RequestInputs \cup ForecastInputs
NotebookOf(cell) ==
    CASE cell = "missing" -> "bank"
      [] cell = "request" -> "chainer"
      [] cell = "forecast" -> "beer"

InitCells ==
    /\ Boot
    /\ \A t \in DOMAIN compute : compute[t] = NoTarget
    /\ ort = "absent"
    /\ pyCompat
    /\ ns \in CellInputs
    /\ nb = NotebookOf(ns.cell)

NextCells == InjectMissing \/ BuildRequest \/ SelectForecastModel

SpecCells == InitCells /\ [][NextCells]_vars

\* ------------------------------------------------------------------------
\* Properties
\* ------------------------------------------------------------------------
Log == hist.run

\* C1 (as stated): ComputeTarget.create is never called while a compute
\* target of any type holds the chosen name.
C1_CreateOnlyWhenAbsent ==
    \A c \in hist.createLog : c.existing = "none"

\* C1 (amended): create is not called while an AmlCompute target holds the
\* name; only the cells that also test the type (bank marketing, text DNN)
\* call it over a target of another type; and over all executions at most
\* one create call per name adds a target.
C1_GetOrCreate ==
    /\ \A c \in hist.createLog :
         c.existing /= "none" =>
            /\ nb \in {"bank", "textdnn"}
            /\ c.existing /= "AmlCompute"
    /\ \A t \in DOMAIN hist.created : hist.created[t] <= 1

\* a later execution finds the target that an earlier one created
C1_Witness ==
    \E t \in DOMAIN handle :
       execs >= 2 /\ handle[t] = "found" /\ hist.created[t] = 1
          /\ hist.createCalls[t] = 1

\* C2 (as stated): every job is submitted to a compute target whose
\* wait_for_completion has returned, whether the target was found or created.
C2_WaitOnEveryPath ==
    \A s \in Log.submitLog : s.waited

WaitHasTimeout(t) ==
    \E c \in Cells(nb) : c.op = "wait_compute" /\ c.x = t /\ "timeout" \in c.f

\* C2 (amended): a job is submitted to a newly created target only after its
\* wait_for_completion returned; for a target that was found this holds in
\* the bank marketing, text DNN and beer notebooks only.  A wait without a
\* timeout returns only when provisioning has ended.
C2_WaitAfterCreate ==
    \A s \in Log.submitLog :
       /\ (s.how = "created" \/ nb \in {"bank", "textdnn", "beer"}) => s.waited
       /\ (s.waited /\ ~WaitHasTimeout(s.target)) => s.state /= "creating"

\* a job went to a target that this execution created and waited for, and
\* another one to a target that was found and waited for
C2_Witness ==
    \E s \in Log.submitLog :
       /\ s.waited
       /\ \/ s.how = "created" /\ nb = "chainer" /\ s.state = "ready"
          \/ s.how = "found" /\ nb = "bank" /\ s.state = "creating"

\* C3 (as stated): at every submission, result retrieval and deployment,
\* each run obtained from an earlier experiment.submit is terminal.
C3_AllRunsWaited ==
    \A p \in Log.proceedLog : p.pending = {}

\* C3 (amended): the same, except for the first run of the Chainer notebook
\* (run = experiment.submit(estimator)), which is only displayed.
C3_RunsWaitedButChainerRun ==
    \A p \in Log.proceedLog :
       p.pending \subseteq (IF nb = "chainer" THEN {"run"} ELSE {})

\* results are read off a submitted run that was waited for
C3_Witness ==
    \E r \in Log.retrieveLog :
       r.run \in SubmitRuns(nb) /\ r.state \in Terminal /\ nb /= "chainer"

\* C4: the results of the drift run are read only when the run is over.
C4_DriftResultsAfterRun ==
    \A r \in Log.retrieveLog :
       (nb = "drift" /\ r.run = "run") => r.state \in Terminal

\* C5 (as stated): no configuration object is part of two submissions or
\* changed after it was submitted.
C5_ConfigSubmittedOnce ==
    \A c \in DOMAIN cfg : cfg[c].submits <= 1 /\ ~cfg[c].dirty

\* C5 (amended): no configuration object is changed after it was submitted,
\* every submitted object was constructed in this execution, and only the
\* Chainer estimator is part of two submissions (alone, then inside the
\* HyperDriveConfig).
C5_ConfigNotMutated ==
    \A c \in DOMAIN cfg :
       /\ ~cfg[c].dirty
       /\ cfg[c].submits > 0 => cfg[c].built
       /\ cfg[c].submits <= (IF nb = "chainer" /\ c = "estimator" THEN 2 ELSE 1)

\* the iris environment was edited, wrapped and then submitted
C5_Witness ==
    /\ nb = "iris"
    /\ cfg["predict_env"].submits = 1
    /\ cfg["pipeline"].submits = 1
    /\ status = "done"

\* C6: a run that was submitted changes state only in steps of the platform;
\* no step of the notebook changes it.
C6_RunsNotDrivenLocally ==
    [][(\E r \in DOMAIN runs :
          runs[r] /= "none" /\ runs'[r] /= runs[r] /\ runs'[r] /= "none")
       => (pc' = pc /\ status' = status /\ execs' = execs)]_vars

\* the notebook is blocked in a wait while the platform has cancelled the run
C6_Witness ==
    /\ At("wait_run")
    /\ runs[Cur.x] = "canceled"

\* C7 (as stated): an exception is either caught to implement get-or-create
\* or it propagates.
C7_OnlyGetOrCreateHandled ==
    \A f \in Log.failLog :
       f.outcome /= "unchecked" => f.outcome \in {"propagated", "get_or_create"}

\* C7 (amended): besides get-or-create, the ImportError of onnxruntime (bank
\* marketing), an exception inside run() of a score.py, and errors of
\* shutil.rmtree (iris) are handled; exit statuses of shell commands and the
\* HTTP status of requests.post are not looked at; every other exception
\* propagates.
C7_HandledFailures ==
    \A f \in Log.failLog :
       \/ f.outcome \in {"propagated", "get_or_create"}
       \/ nb = "bank" /\ f.line = 606 /\ f.exc = "ImportError" /\ f.outcome = "recovered"
       \/ nb \in {"local", "drift"} /\ f.line \in {238, 270, 286, 301}
             /\ f.exc = "Exception" /\ f.outcome = "returned_as_value"
       \/ nb = "iris" /\ f.line = 437 /\ f.exc = "OSError" /\ f.outcome = "ignored"
       \/ f.exc \in {"ShellExit", "HTTPStatus"} /\ f.outcome = "unchecked"

\* a lookup failed and led to creation, and a later failure stopped the notebook
C7_Witness ==
    /\ status = "error"
    /\ \E f \in Log.failLog : f.outcome = "get_or_create"
    /\ \E f \in Log.failLog : f.outcome = "propagated" /\ f.line > 200

\* C8 (as stated): no statement of an earlier stage is executed after a
\* statement of a later stage.
C8_StagesInOrder ==
    Log.regress = {}

\* C8 (amended): the stage order holds in the iris and the local deployment
\* notebooks; in every notebook the bootstrap is not preceded by a later
\* stage, a job goes to a compute target acquired before, and results are
\* read off a run submitted before.
C8_StagesPartlyInOrder ==
    /\ nb \in {"iris", "local"} => Log.regress = {}
    /\ \A g \in Log.regress : g.stage /= 1
    /\ \A s \in Log.submitLog : s.how /= "unset"
    /\ \A r \in Log.retrieveLog : r.state /= "none"

\* the iris notebook ran through all six stages
C8_Witness ==
    /\ nb = "iris"
    /\ status = "done"
    /\ Log.maxStage = 6
    /\ Log.submitLog /= {}

\* C9: the workspace handle is assigned once per execution, before any
\* other statement that talks to the platform.
C9_WorkspaceLoadedOnce ==
    /\ wsLoads <= 1
    /\ Log.firstRemote /= "none" => (Log.firstRemote = "load_ws" /\ wsLoads = 1)

\* a second execution ran to its end with one load
C9_Witness ==
    /\ status = "done"
    /\ execs = 2
    /\ wsLoads = 1
    /\ nb = "beer"

\* C10: a registration adds at most one record and leaves every record
\* registered before as it is.
C10_RegistryImmutable ==
    [][/\ registry \subseteq registry'
       /\ Cardinality(registry') <= Cardinality(registry) + 1]_vars

\* the text DNN model registered twice: both versions are there
C10_Witness ==
    /\ nb = "textdnn"
    /\ \E a \in registry : \E b \in registry :
         /\ a.kind = "model" /\ b.kind = "model"
         /\ a.name = b.name
         /\ a.version = 1 /\ a.exec = 1
         /\ b.version = 2 /\ b.exec = 2

\* C11 (as stated): no statement of a notebook evaluates a model in the
\* notebook process.
C11_NoLocalInference ==
    \A i \in Log.inferLog : i.site /= "notebook"

\* C11 (amended): predictions come from a remote run or a deployed service,
\* except in the bank marketing notebook, where OnnxInferenceHelper.predict
\* (627) and fitted_model.predict (835) are evaluated in the notebook process.
C11_LocalInferenceOnlyBank ==
    \A i \in Log.inferLog :
       /\ i.site \in {"notebook", "service", "run"}
       /\ i.site = "notebook" => (nb = "bank" /\ i.line \in {627, 835})

\* the bank marketing notebook predicted with the ONNX model and with the
\* fitted model in the notebook process
C11_Witness ==
    /\ nb = "bank"
    /\ [line |-> 627, site |-> "notebook"] \in Log.inferLog
    /\ [line |-> 835, site |-> "notebook"] \in Log.inferLog

\* C12: writing score.py leaves the deployed service as it is; a request
\* answered after reload() with a successful model.predict gets the message
\* of the rewritten script; reload() keeps image, model and port.
C12_ReloadSemantics ==
    /\ [](\A c \in Log.callLog :
            (nb = "local" /\ c.reloads > 0 /\ c.ok) =>
                c.response = "hello from updated score.py")
    /\ [][/\ At("writefile") => services' = services
          /\ (At("reload") /\ pc' = pc + 1) =>
               \A x \in DOMAIN services :
                  /\ services'[x].image = services[x].image
                  /\ services'[x].model = services[x].model
                  /\ services'[x].port = services[x].port
                  /\ services'[x].state = services[x].state]_vars

\* first execution: the request before reload() was answered by the script
\* the service was deployed with, the one after it by the rewritten script
C12_Witness ==
    /\ nb = "local"
    /\ execs = 1
    /\ \E c \in Log.callLog : c.line = 238 /\ c.reloads = 0 /\ c.response = "result"
    /\ \E c \in Log.callLog :
          /\ c.line = 301 /\ c.reloads = 1 /\ c.ok
          /\ c.response = "hello from updated score.py"
    /\ services["test"].port = 6789
    /\ services["test"].image = 1

\* C15: the ONNX cell runs pip install exactly when onnxruntime could not be
\* imported or was not version 0.4.0; it then predicts if and only if the
\* Python version is compatible, and prints the message otherwise.
C15_OnnxCell ==
    onnxOutcome.result /= "none" =>
        /\ onnxOutcome.installed <=> (onnxOutcome.was /= "0.4.0")
        /\ (onnxOutcome.result = "predicted") <=> pyCompat
        /\ ~pyCompat => onnxOutcome.result = "message"

C17_MonitorGetOrCreate ==
    /\ (\E i \in 1..(pc - 1) : Program(nb)[i].op = "monitor_create") =>
          /\ monitorVar \in detectors
          /\ monitorVar.name = "elevation-regression-model.pkl"
          /\ monitorVar.version = modelVer
    /\ \A d \in detectors : \A e \in detectors :
          (d.name = e.name /\ d.version = e.version) => d = e

\* second execution (the first one stopped between registration and
\* deployment): the cell created the detector of version 2, and its
\* re-execution fetched that detector after the KeyError
C17_Witness ==
    /\ nb = "drift"
    /\ execs = 2
    /\ Log.reruns = 1
    /\ [what |-> "create", clock |-> 1] \in Log.monitorLog
    /\ [what |-> "get", clock |-> 1] \in Log.monitorLog
    /\ monitorVar.version = 2
    /\ Cardinality(detectors) = 1

\* C18: in the drift notebook a scoring request goes to a service deployed
\* with collect_model_data whose wait_for_deployment has returned, and the
\* monitor is created, fetched and run at least 600 seconds (one unit of the
\* clock) after a scoring request was sent.
C18_ScoreThenWaitThenMonitor ==
    nb = "drift" =>
       /\ \A c \in Log.callLog :
             "collect_model_data" \in c.flags /\ c.waited
       /\ \A m \in Log.monitorLog :
             /\ Log.callLog /= {}
             /\ \A c \in Log.callLog : m.clock >= c.clock + 1

\* the scoring request was answered at time 0 and the monitor was run one
\* sleep later
C18_Witness ==
    /\ nb = "drift"
    /\ \E c \in Log.callLog :
          c.response = "result" /\ c.clock = 0 /\ c.waited
             /\ "collect_model_data" \in c.flags
    /\ [what |-> "create", clock |-> 1] \in Log.monitorLog
    /\ [what |-> "run", clock |-> 1] \in Log.monitorLog

\* C19: in the Chainer notebook a scoring request goes to a service deployed
\* with auth_enabled whose wait_for_deployment has returned, and carries a key
\* that get_keys returned for that service as it is deployed now.
C19_RequestsCarryKey ==
    nb = "chainer" =>
       \A c \in Log.callLog :
          /\ "auth_enabled" \in c.flags
          /\ c.waited
          /\ c.key /= NoKey
          /\ c.key = [service |-> c.service, image |-> c.image]

\* second execution: the service was deployed again and the request carried
\* the key of the new deployment
C19_Witness ==
    /\ nb = "chainer"
    /\ execs = 2
    /\ \E c \in Log.callLog :
          /\ c.response = "result"
          /\ c.key = [service |-> "chainer-mnist-1", image |-> 2]
          /\ c.waited

\* ------------------------------------------------------------------------
\* Properties of single cells
\* ------------------------------------------------------------------------
\* C13: the request body carries the pixel row X_test[random_index], and
\* the printed label is the label of that sample.
C13_RequestCarriesSample ==
    (ns.cell = "request" /\ ns.done /\ ns.raised = "none") =>
        /\ ns.input_data = Body(RowText(ns.X_test[ns.random_index + 1]))
        /\ ns.label = ns.y_test[ns.random_index + 1]

\* C14: after the cell, floor(0.75 * N) rows hold exactly one missing value
\* and the other rows are as they were.
C14_MissingInThreeQuarters ==
    (ns.cell = "missing" /\ ns.done) =>
        LET n == Len(ns.data)
            hit == {r \in 1..n : \E c \in DOMAIN ns.data[r] : ns.data[r][c] = "nan"}
        IN /\ Cardinality(hit) = Floor75(n)
           /\ \A r \in hit :
                 Cardinality({c \in DOMAIN ns.data[r] : ns.data[r][c] = "nan"}) = 1
           /\ \A r \in (1..n) \ hit : ns.data[r] = ns.before[r]

\* C20: the run indexed 'TCNForecaster' is selected when the summary has
\* that label, otherwise the run indexed 'ForecastTCN'; with neither label
\* the cell raises and best_dnn_run stays unbound.
C20_ForecastModelSelection ==
    (ns.cell = "forecast" /\ ns.done) =>
        IF "TCNForecaster" \in DOMAIN ns.run_id
        THEN /\ ns.best_dnn_run = ns.run_id["TCNForecaster"]
             /\ ns.raised = "none"
        ELSE IF "ForecastTCN" \in DOMAIN ns.run_id
        THEN /\ ns.best_dnn_run = ns.run_id["ForecastTCN"]
             /\ ns.raised = "none"
        ELSE /\ ns.best_dnn_run = Unbound
             /\ ns.raised = "KeyError"

\* the summary has both labels with different runs, and the run of
\* 'TCNForecaster' was taken
C20_Witness ==
    /\ ns.cell = "forecast"
    /\ ns.done
    /\ {"TCNForecaster", "ForecastTCN"} \subseteq DOMAIN ns.run_id
    /\ ns.run_id["TCNForecaster"] /= ns.run_id["ForecastTCN"]
    /\ ns.best_dnn_run = ns.run_id["TCNForecaster"]
    /\ ns.forecast_model = "TCNForecaster"

====
